---- MODULE Spec2Model ----
(***************************************************************************)
(* Policy decision engine (mcp_servers/policy_engine.py) and the delegated *)
(* actor that forwards to it (agents/delegation_agent.py).                 *)
(*                                                                         *)
(* Python dictionaries are functions with a string domain, read through    *)
(* Get (dict.get with a default).  Strings the code lower-cases are        *)
(* sequences of one-character strings; strings it only passes along are    *)
(* plain strings.  An f-string is a record of its text and the values it   *)
(* interpolates.                                                           *)
(***************************************************************************)
EXTENDS Integers, Sequences, FiniteSets, TLC

\* ------------------------------------------------------------- bounds
\* Most evaluations one run issues (the audit log's largest length).
MaxLog == 2
\* Last instant of the clock.
MaxTime == 2

\* ------------------------------------------------------ python values
\* None, for the optional records (a subscription, a delegate's rules, an expiry).
None == [py_none |-> TRUE]

\* {}
EmptyDict == [k \in {} |-> TRUE]

\* d.get(k, default)
Get(d, k, default) == IF k \in DOMAIN d THEN d[k] ELSE default

\* bool(x) of an optional dictionary: None and {} are false.
Truthy(x) == x # None /\ DOMAIN x # {}

\* x in xs, for a list xs
InList(x, xs) == \E i \in DOMAIN xs : xs[i] = x

UpperChars == <<"A", "B", "C", "D", "E", "F", "G", "H", "I", "J", "K", "L", "M",
                "N", "O", "P", "Q", "R", "S", "T", "U", "V", "W", "X", "Y", "Z">>

LowerChars == <<"a", "b", "c", "d", "e", "f", "g", "h", "i", "j", "k", "l", "m",
                "n", "o", "p", "q", "r", "s", "t", "u", "v", "w", "x", "y", "z">>

LowerChar(c) ==
  IF \E i \in DOMAIN UpperChars : UpperChars[i] = c
  THEN LowerChars[CHOOSE i \in DOMAIN UpperChars : UpperChars[i] = c]
  ELSE c

\* str.lower()
Lower(s) == [i \in DOMAIN s |-> LowerChar(s[i])]

\* ------------------------------------------------- the texts in play
Spotify == <<"S", "p", "o", "t", "i", "f", "y">>

SpotifyDuo == Spotify \o <<" ", "D", "u", "o">>

SpotifyDuoShout == <<"S", "P", "O", "T", "I", "F", "Y", " ", "d", "u", "o">>

ZomatoGold == <<"Z", "o", "m", "a", "t", "o", " ", "G", "o", "l", "d">>

JioFiber == <<"J", "i", "o", "F", "i", "b", "e", "r">>

Streaming == <<"s", "t", "r", "e", "a", "m", "i", "n", "g">>

Utility == <<"u", "t", "i", "l", "i", "t", "y">>

UtilityCapital == <<"U", "t", "i", "l", "i", "t", "y">>

Music == <<"M", "u", "s", "i", "c">>

\* ------------------------------------------- expiry_timestamp values
\* An ISO-8601 text is its instant and its offset suffix ("Z", "+00:00", or ""
\* for none); any other text is not ISO-8601.
IsoZ(t) == [iso |-> TRUE, at |-> t, tz |-> "Z"]

IsoNaive(t) == [iso |-> TRUE, at |-> t, tz |-> ""]

NotIso == [iso |-> FALSE]

\* ---------------------------------------------- policy documents
\* What config/policies.yaml may hold when it is read.
Catalog ==
  << [id |-> "sub_002", name |-> SpotifyDuo, category |-> Streaming, amount |-> 500],
     [id |-> "sub_003", name |-> JioFiber, category |-> Utility, amount |-> 1200] >>

\* The demo's rules: main.py prints "[Allowed: Spotify, Zomato Gold] [Max Spend: 500]".
CfgDemo ==
  [ mock_database |-> Catalog,
    owner_policies |-> [blocked_categories |-> <<Utility>>, max_cancellation_amount |-> 800],
    delegation_policies |->
      [roommate |-> [allowed_subscriptions |-> <<Spotify, ZomatoGold>>, max_amount |-> 500]],
    global_rules |-> [require_confirmation_above |-> 1000] ]

\* Delegates with an expiry; a whitelist in another case than the catalog's; no
\* global rules.
CfgTimed ==
  [ mock_database |-> Catalog,
    owner_policies |-> [blocked_categories |-> <<Utility>>, max_cancellation_amount |-> 2000],
    delegation_policies |->
      [roommate |-> [allowed_subscriptions |-> <<SpotifyDuoShout>>,
                     expiry_timestamp |-> IsoZ(1), max_amount |-> 500],
       guest |-> [allowed_subscriptions |-> <<UtilityCapital>>,
                  expiry_timestamp |-> IsoNaive(1)]] ]

\* Another catalog; owner rules without blocked categories; an expiry that is not
\* ISO-8601; a delegate with an empty rule set.
CfgDraft ==
  [ mock_database |->
      << [id |-> "sub_002", name |-> SpotifyDuo, category |-> Music, amount |-> 900] >>,
    owner_policies |-> [max_cancellation_amount |-> 400],
    delegation_policies |->
      [roommate |-> [allowed_subscriptions |-> <<Lower(Music)>>, expiry_timestamp |-> NotIso],
       guest |-> EmptyDict],
    global_rules |-> [require_confirmation_above |-> 500] ]

\* The file as the loader may find it: missing, not YAML, empty, or a document.
Sources ==
  { [kind |-> "missing"], [kind |-> "malformed"], [kind |-> "yaml", doc |-> None] }
  \cup { [kind |-> "yaml", doc |-> d] : d \in {CfgDemo, CfgTimed, CfgDraft} }

\* Offsets of local time from UTC the process may run under.
UtcOffsets == {0, 1}

\* Threads that may call the engine at once.
Threads == {"t1", "t2"}

\* ---------------------------------------------------- request inputs
\* "guest" has no entry in CfgDemo, an expiring one in CfgTimed, an empty one in CfgDraft.
Requesters == {"owner", "roommate", "guest"}

ResourceIds == {"sub_002", "sub_003", "sub_new"}

\* Action names handed to attempt_action, and to check_delegation directly.
Actions == {"cancel", "spend", "modify"}

CheckActions == {"cancel", "modify"}

Amounts == {0, 500, 2000}

SpendCategories == {"streaming", "utility"}

\* The requests concurrent callers make.
ConcRequesters == {"owner", "roommate"}

ConcResourceIds == {"sub_002", "sub_new"}

ConcActions == {"modify"}

ConcAmounts == {2000}

\* The keyword arguments a caller passes to attempt_action.
Kwargs ==
  {EmptyDict} \cup {[amount |-> a, category |-> "streaming"] : a \in Amounts}

VARIABLES
  policies,           \* PolicyEngine.policies
  audit_log,          \* PolicyEngine._audit_log
  default_timestamp,  \* PolicyDecision.timestamp's default, set when the class is defined
  now,                \* the clock, as a UTC instant
  utc_offset,         \* local time minus UTC
  last,               \* the latest call to return: its operation, arguments and return value
  threads             \* per thread, the evaluation it is in the middle of

vars == <<policies, audit_log, default_timestamp, now, utc_offset, last, threads>>

\* ------------------------------------------------------- PolicyEngine
\* PolicyDecision(allowed, reason, action, resource_id, requester)
PolicyDecision(allowed, reason, action, resource_id, requester) ==
  [ allowed |-> allowed, reason |-> reason, action |-> action,
    resource_id |-> resource_id, requester |-> requester,
    timestamp |-> default_timestamp ]

\* _load_policies: the document, or {} when reading or parsing fails or yields nothing.
load_policies(src) ==
  IF src.kind # "yaml" THEN EmptyDict
  ELSE IF Truthy(src.doc) THEN src.doc ELSE EmptyDict

\* _get_subscription: the first record of mock_database with the id, or None.
get_subscription(pol, subscription_id) ==
  LET db == Get(pol, "mock_database", <<>>)
      hits == {i \in DOMAIN db : db[i].id = subscription_id}
  IN IF hits = {} THEN None
     ELSE db[CHOOSE i \in hits : \A j \in hits : i <= j]

NotFound(action, resource_id, requester) ==
  PolicyDecision(FALSE, [fmt |-> "Subscription not found."], action, resource_id, requester)
\* _log_decision that leaves out a Decision the log already holds.
log_decision_dedup(log, decision) ==
  IF \E i \in DOMAIN log : log[i] = decision THEN log ELSE Append(log, decision)

\* _log_decision: append to the audit log.  An evaluation's outcome is the Decision it
\* returns and the audit log it leaves.
log_decision(log, decision) == Append(log, decision)

Logged(log, decision) == [ret |-> decision, log |-> log_decision(log, decision)]

\* owner_rules with the amount limit checked before the category block.
owner_rules_amount_first(log, pol, sub, subscription_id, requester) ==
  LET owner_policies == Get(pol, "owner_policies", EmptyDict)
      limit == Get(owner_policies, "max_cancellation_amount", 0)
  IN IF sub.amount > limit
     THEN Logged(log, PolicyDecision(FALSE,
            [fmt |-> "AMOUNT BLOCK: Cost (${amount}) exceeds cancellation limit (${limit}).",
             amount |-> sub.amount, limit |-> limit],
            "cancel", subscription_id, requester))
     ELSE IF InList(sub.category, Get(owner_policies, "blocked_categories", <<>>))
     THEN Logged(log, PolicyDecision(FALSE,
            [fmt |-> "CATEGORY BLOCK: Cannot cancel '{category}' subscriptions autonomously.",
             category |-> sub.category],
            "cancel", subscription_id, requester))
     ELSE Logged(log, PolicyDecision(TRUE, [fmt |-> "Action permitted by owner policies."],
            "cancel", subscription_id, requester))

\* can_cancel, the owner's branch: category block, then amount limit, then allow.
owner_rules(log, pol, sub, subscription_id, requester) ==
  LET owner_policies == Get(pol, "owner_policies", EmptyDict)
      limit == Get(owner_policies, "max_cancellation_amount", 0)
  IN IF InList(sub.category, Get(owner_policies, "blocked_categories", <<>>))
     THEN Logged(log, PolicyDecision(FALSE,
            [fmt |-> "CATEGORY BLOCK: Cannot cancel '{category}' subscriptions autonomously.",
             category |-> sub.category],
            "cancel", subscription_id, requester))
     ELSE IF sub.amount > limit
     THEN Logged(log, PolicyDecision(FALSE,
            [fmt |-> "AMOUNT BLOCK: Cost (${amount}) exceeds cancellation limit (${limit}).",
             amount |-> sub.amount, limit |-> limit],
            "cancel", subscription_id, requester))
     ELSE Logged(log, PolicyDecision(TRUE, [fmt |-> "Action permitted by owner policies."],
            "cancel", subscription_id, requester))

\* expiry_str.replace("Z", "+00:00")
ReplaceZ(tz) == IF tz = "Z" THEN "+00:00" ELSE tz

\* datetime_now reading local wall time whatever the expiry's offset.
datetime_now_local(tz) == now + utc_offset

\* datetime.now(tzinfo): the instant for an aware expiry, local wall time for a naive one.
datetime_now(tz) == IF tz = "" THEN now + utc_offset ELSE now

\* Expired with the comparison now >= expiry.
Expired_at_expiry(role_policies) ==
  LET expiry_str == Get(role_policies, "expiry_timestamp", None)
  IN /\ expiry_str # None
     /\ expiry_str.iso
     /\ datetime_now(ReplaceZ(expiry_str.tz)) >= expiry_str.at

\* The expiry check: an expiry is set, parses, and now is past it.  A text that does
\* not parse raises ValueError, which is caught and only logged.
Expired(role_policies) ==
  LET expiry_str == Get(role_policies, "expiry_timestamp", None)
  IN /\ expiry_str # None
     /\ expiry_str.iso
     /\ datetime_now(ReplaceZ(expiry_str.tz)) > expiry_str.at

\* delegation_rules with the whitelist checked before the expiry.
delegation_rules_whitelist_first(log, pol, sub, requester, action, resource_id) ==
  LET role_policies == Get(Get(pol, "delegation_policies", EmptyDict), requester, None)
      allowed_subs ==
        LET listed == Get(role_policies, "allowed_subscriptions", <<>>)
        IN [i \in DOMAIN listed |-> Lower(listed[i])]
  IN IF ~Truthy(role_policies)
     THEN Logged(log, PolicyDecision(FALSE,
            [fmt |-> "No delegation policies defined for user '{requester}'.",
             requester |-> requester],
            action, resource_id, requester))
     ELSE IF /\ ~InList(Lower(sub.name), allowed_subs)
             /\ ~InList(Lower(sub.category), allowed_subs)
     THEN Logged(log, PolicyDecision(FALSE,
            [fmt |-> "DELEGATION BLOCK: User '{requester}' is not authorized to manage '{name}'.",
             requester |-> requester, name |-> sub.name],
            action, resource_id, requester))
     ELSE IF Expired(role_policies)
     THEN Logged(log, PolicyDecision(FALSE, [fmt |-> "DELEGATION BLOCK: Access has expired."],
            action, resource_id, requester))
     ELSE Logged(log, PolicyDecision(TRUE, [fmt |-> "Action permitted by delegation policies."],
            action, resource_id, requester))

\* check_delegation after the resource is found: no policy, expired, whitelist, allow.
delegation_rules(log, pol, sub, requester, action, resource_id) ==
  LET role_policies == Get(Get(pol, "delegation_policies", EmptyDict), requester, None)
      allowed_subs ==
        LET listed == Get(role_policies, "allowed_subscriptions", <<>>)
        IN [i \in DOMAIN listed |-> Lower(listed[i])]
  IN IF ~Truthy(role_policies)
     THEN Logged(log, PolicyDecision(FALSE,
            [fmt |-> "No delegation policies defined for user '{requester}'.",
             requester |-> requester],
            action, resource_id, requester))
     ELSE IF Expired(role_policies)
     THEN Logged(log, PolicyDecision(FALSE, [fmt |-> "DELEGATION BLOCK: Access has expired."],
            action, resource_id, requester))
     ELSE IF /\ ~InList(Lower(sub.name), allowed_subs)
             /\ ~InList(Lower(sub.category), allowed_subs)
     THEN Logged(log, PolicyDecision(FALSE,
            [fmt |-> "DELEGATION BLOCK: User '{requester}' is not authorized to manage '{name}'.",
             requester |-> requester, name |-> sub.name],
            action, resource_id, requester))
     ELSE Logged(log, PolicyDecision(TRUE, [fmt |-> "Action permitted by delegation policies."],
            action, resource_id, requester))

check_delegation(log, pol, requester, action, resource_id) ==
  LET sub == get_subscription(pol, resource_id)
  IN IF ~Truthy(sub)
     THEN Logged(log, NotFound(action, resource_id, requester))
     ELSE delegation_rules(log, pol, sub, requester, action, resource_id)

can_cancel(log, pol, subscription_id, requester) ==
  LET sub == get_subscription(pol, subscription_id)
  IN IF ~Truthy(sub)
     THEN Logged(log, NotFound("cancel", subscription_id, requester))
     ELSE IF requester = "owner"
     THEN owner_rules(log, pol, sub, subscription_id, requester)
     ELSE check_delegation(log, pol, requester, "cancel", subscription_id)

\* is_within_budget with a delegate's missing max_amount read as no limit.
is_within_budget_unlimited(log, pol, amount, category, requester) ==
  IF requester = "owner"
  THEN LET global_rules == Get(pol, "global_rules", EmptyDict)
       IN IF /\ "require_confirmation_above" \in DOMAIN global_rules
             /\ amount > global_rules.require_confirmation_above
          THEN Logged(log, PolicyDecision(FALSE,
                 [fmt |-> "Spend (${amount}) requires manual confirmation (Limit: ${limit}).",
                  amount |-> amount, limit |-> global_rules.require_confirmation_above],
                 "spend", category, requester))
          ELSE Logged(log, PolicyDecision(TRUE, [fmt |-> "Spend within budget limits."],
                 "spend", category, requester))
  ELSE LET role_policies == Get(Get(pol, "delegation_policies", EmptyDict), requester, EmptyDict)
       IN IF /\ "max_amount" \in DOMAIN role_policies
             /\ amount > role_policies.max_amount
          THEN Logged(log, PolicyDecision(FALSE,
                 [fmt |-> "Spend (${amount}) exceeds delegate limit (${limit}).",
                  amount |-> amount, limit |-> role_policies.max_amount],
                 "spend", category, requester))
          ELSE Logged(log, PolicyDecision(TRUE, [fmt |-> "Spend within budget limits."],
                 "spend", category, requester))

\* is_within_budget.  The owner's limit defaults to float('inf'), which no amount
\* exceeds; a delegate's to 0.
is_within_budget(log, pol, amount, category, requester) ==
  IF requester = "owner"
  THEN LET global_rules == Get(pol, "global_rules", EmptyDict)
       IN IF /\ "require_confirmation_above" \in DOMAIN global_rules
             /\ amount > global_rules.require_confirmation_above
          THEN Logged(log, PolicyDecision(FALSE,
                 [fmt |-> "Spend (${amount}) requires manual confirmation (Limit: ${limit}).",
                  amount |-> amount, limit |-> global_rules.require_confirmation_above],
                 "spend", category, requester))
          ELSE Logged(log, PolicyDecision(TRUE, [fmt |-> "Spend within budget limits."],
                 "spend", category, requester))
  ELSE LET role_policies == Get(Get(pol, "delegation_policies", EmptyDict), requester, EmptyDict)
           limit == Get(role_policies, "max_amount", 0)
       IN IF amount > limit
          THEN Logged(log, PolicyDecision(FALSE,
                 [fmt |-> "Spend (${amount}) exceeds delegate limit (${limit}).",
                  amount |-> amount, limit |-> limit],
                 "spend", category, requester))
          ELSE Logged(log, PolicyDecision(TRUE, [fmt |-> "Spend within budget limits."],
                 "spend", category, requester))

\* ----------------------------------------------------- DelegatedAgent
\* agent_route without the "spend" branch.
agent_route_no_spend(log, pol, delegator_id, action, resource_id, kwargs) ==
  IF action = "cancel"
  THEN can_cancel(log, pol, resource_id, delegator_id)
  ELSE check_delegation(log, pol, delegator_id, action, resource_id)

\* attempt_action: route by the action, then turn the Decision into a response.
agent_route(log, pol, delegator_id, action, resource_id, kwargs) ==
  IF action = "cancel"
  THEN can_cancel(log, pol, resource_id, delegator_id)
  ELSE IF action = "spend"
  THEN is_within_budget(log, pol, Get(kwargs, "amount", 0),
                        Get(kwargs, "category", "unknown"), delegator_id)
  ELSE check_delegation(log, pol, delegator_id, action, resource_id)

agent_response(decision, action, resource_id) ==
  IF ~decision.allowed
  THEN [status |-> "blocked", reason |-> decision.reason,
        action |-> action, resource_id |-> resource_id]
  ELSE [status |-> "success",
        message |-> [fmt |-> "Successfully executed '{action}' on '{resource_id}'.",
                     action |-> action, resource_id |-> resource_id],
        details |-> [fmt |-> "Authorized by policy: {reason}", reason |-> decision.reason]]

attempt_action(log, pol, delegator_id, action, resource_id, kwargs) ==
  LET out == agent_route(log, pol, delegator_id, action, resource_id, kwargs)
  IN [ret |-> agent_response(out.ret, action, resource_id), decision |-> out.ret,
      log |-> out.log]
\* ------------------------------------------------ the engine, one caller
Init ==
  /\ policies \in {load_policies(src) : src \in Sources}
  /\ audit_log = <<>>
  /\ now = 0
  /\ utc_offset \in UtcOffsets
  /\ default_timestamp = now + utc_offset
  /\ last = [n |-> 0, op |-> "init"]
  /\ threads = [t \in Threads |-> [pc |-> "idle"]]

CanCancel ==
  \E subscription_id \in ResourceIds, requester \in Requesters :
    LET out == can_cancel(audit_log, policies, subscription_id, requester)
    IN /\ Len(audit_log) < MaxLog
       /\ audit_log' = out.log
       /\ last' = [n |-> last.n + 1, op |-> "can_cancel", subscription_id |-> subscription_id,
                   requester |-> requester, ret |-> out.ret]
       /\ UNCHANGED <<policies, default_timestamp, now, utc_offset, threads>>

CheckDelegation ==
  \E requester \in Requesters, action \in CheckActions, resource_id \in ResourceIds :
    LET out == check_delegation(audit_log, policies, requester, action, resource_id)
    IN /\ Len(audit_log) < MaxLog
       /\ audit_log' = out.log
       /\ last' = [n |-> last.n + 1, op |-> "check_delegation", requester |-> requester, action |-> action,
                   resource_id |-> resource_id, ret |-> out.ret]
       /\ UNCHANGED <<policies, default_timestamp, now, utc_offset, threads>>

IsWithinBudget ==
  \E amount \in Amounts, category \in SpendCategories, requester \in Requesters :
    LET out == is_within_budget(audit_log, policies, amount, category, requester)
    IN /\ Len(audit_log) < MaxLog
       /\ audit_log' = out.log
       /\ last' = [n |-> last.n + 1, op |-> "is_within_budget", amount |-> amount, category |-> category,
                   requester |-> requester, ret |-> out.ret]
       /\ UNCHANGED <<policies, default_timestamp, now, utc_offset, threads>>

AttemptAction ==
  \E delegator_id \in Requesters \ {"owner"}, action \in Actions :
   \E resource_id \in (IF action = "spend" THEN {"sub_new"} ELSE ResourceIds),
      kwargs \in (IF action = "spend" THEN Kwargs ELSE {EmptyDict}) :
    LET out == attempt_action(audit_log, policies, delegator_id, action, resource_id, kwargs)
    IN /\ Len(audit_log) < MaxLog
       /\ audit_log' = out.log
       /\ last' = [n |-> last.n + 1, op |-> "attempt_action", delegator_id |-> delegator_id,
                   action |-> action, resource_id |-> resource_id, kwargs |-> kwargs,
                   decision |-> out.decision, ret |-> out.ret]
       /\ UNCHANGED <<policies, default_timestamp, now, utc_offset, threads>>

\* refresh_delegation: read the file again and replace the rule set.
RefreshDelegation ==
  \E src \in Sources :
    /\ policies' = load_policies(src)
    /\ threads' = [t \in Threads |->
                     IF threads[t].pc = "idle" THEN threads[t]
                     ELSE [threads[t] EXCEPT !.seen = @ \cup {policies'}]]
    /\ UNCHANGED <<audit_log, default_timestamp, now, utc_offset, last>>

\* Time passes.
Tick ==
  /\ now < MaxTime
  /\ now' = now + 1
  /\ UNCHANGED <<policies, audit_log, default_timestamp, utc_offset, last, threads>>

\* Every operation, one caller.
Next ==
  \/ CanCancel
  \/ CheckDelegation
  \/ IsWithinBudget
  \/ AttemptAction
  \/ RefreshDelegation
  \/ Tick

Spec == Init /\ [][Next]_vars

\* One operation at a time, with reloads and the clock.
NextCancel == CanCancel \/ RefreshDelegation \/ Tick

SpecCancel == Init /\ [][NextCancel]_vars

NextDelegation == CheckDelegation \/ RefreshDelegation \/ Tick

SpecDelegation == Init /\ [][NextDelegation]_vars

NextBudget == IsWithinBudget \/ RefreshDelegation \/ Tick

SpecBudget == Init /\ [][NextBudget]_vars

NextAgent == AttemptAction \/ RefreshDelegation \/ Tick

SpecAgent == Init /\ [][NextAgent]_vars

\* attempt_action with an action string that no branch of the dispatcher and no
\* caller in the repository names.
UnrecognizedActions == {"transfer"}

AttemptUnrecognized ==
  \E delegator_id \in Requesters \ {"owner"}, action \in UnrecognizedActions,
     resource_id \in ResourceIds :
    LET out == attempt_action(audit_log, policies, delegator_id, action, resource_id, EmptyDict)
    IN /\ Len(audit_log) < MaxLog
       /\ audit_log' = out.log
       /\ last' = [n |-> last.n + 1, op |-> "attempt_action", delegator_id |-> delegator_id,
                   action |-> action, resource_id |-> resource_id, kwargs |-> EmptyDict,
                   decision |-> out.decision, ret |-> out.ret]
       /\ UNCHANGED <<policies, default_timestamp, now, utc_offset, threads>>

NextDispatch == AttemptUnrecognized \/ RefreshDelegation \/ Tick

SpecDispatch == Init /\ [][NextDispatch]_vars

\* A caller of the engine's three entry points that keeps the rule set it found:
\* nothing reloads between its calls, only the clock moves.
EngineRequests ==
  { [op |-> "can_cancel", subscription_id |-> id, requester |-> r] :
      id \in {"sub_002", "sub_003"}, r \in {"owner", "roommate"} }
  \cup { [op |-> "check_delegation", requester |-> r, action |-> "modify", resource_id |-> id] :
      r \in {"roommate", "guest"}, id \in {"sub_002", "sub_003"} }
  \cup { [op |-> "is_within_budget", amount |-> a, category |-> "streaming", requester |-> r] :
      a \in {500, 2000}, r \in {"owner", "roommate"} }

engine_call(log, pol, request) ==
  IF request.op = "can_cancel"
  THEN can_cancel(log, pol, request.subscription_id, request.requester)
  ELSE IF request.op = "check_delegation"
  THEN check_delegation(log, pol, request.requester, request.action, request.resource_id)
  ELSE is_within_budget(log, pol, request.amount, request.category, request.requester)

\* One evaluation; `at` keeps the clock reading it was made at.
EngineCall ==
  \E request \in EngineRequests :
    LET out == engine_call(audit_log, policies, request)
    IN /\ Len(audit_log) < MaxLog
       /\ audit_log' = out.log
       /\ last' = [n |-> last.n + 1, op |-> request.op, request |-> request, at |-> now,
                   ret |-> out.ret]
       /\ UNCHANGED <<policies, default_timestamp, now, utc_offset, threads>>

NextEngine == EngineCall \/ Tick

SpecEngine == Init /\ [][NextEngine]_vars
\* --------------------------------------------- the engine, several callers
\* Threads switch between the statements of an evaluation, so a step is what one
\* evaluation does with one reading of self.policies: _get_subscription reads it
\* once, the rules are taken from a second reading.  list.append is one step.
InFlight == {t \in Threads : threads[t].pc # "idle"}

MayStart(t) ==
  /\ threads[t].pc = "idle"
  /\ Len(audit_log) + Cardinality(InFlight) < MaxLog

\* The evaluation of thread t returns: its Decision is logged and handed back.
Return(t, op, requester, action, resource_id, out) ==
  /\ audit_log' = out.log
  /\ last' = [n |-> last.n + 1, op |-> op, requester |-> requester, action |-> action,
              resource_id |-> resource_id, ret |-> out.ret]
  /\ threads' = [threads EXCEPT ![t] = [pc |-> "idle"]]

\* The evaluation of thread t holds sub and goes on at pc.
Proceed(t, pc, op, requester, action, resource_id, sub, seen) ==
  /\ threads' = [threads EXCEPT ![t] =
       [pc |-> pc, op |-> op, requester |-> requester, action |-> action,
        resource_id |-> resource_id, sub |-> sub, seen |-> seen]]
  /\ UNCHANGED <<audit_log, last>>

\* can_cancel up to its branch on the requester.
CanCancelLookup(t) ==
  \E subscription_id \in ConcResourceIds, requester \in ConcRequesters :
    LET sub == get_subscription(policies, subscription_id)
    IN /\ MayStart(t)
       /\ IF ~Truthy(sub)
          THEN Return(t, "can_cancel", requester, "cancel", subscription_id,
                      Logged(audit_log, NotFound("cancel", subscription_id, requester)))
          ELSE Proceed(t, IF requester = "owner" THEN "owner_rules" ELSE "check_delegation",
                       "can_cancel", requester, "cancel", subscription_id, sub, {policies})
       /\ UNCHANGED <<policies, default_timestamp, now, utc_offset>>

\* can_cancel, the owner's branch.
CanCancelOwner(t) ==
  LET th == threads[t]
  IN /\ th.pc = "owner_rules"
     /\ Return(t, th.op, th.requester, th.action, th.resource_id,
               owner_rules(audit_log, policies, th.sub, th.resource_id, th.requester))
     /\ UNCHANGED <<policies, default_timestamp, now, utc_offset>>

\* check_delegation up to its rules, called directly.
CheckDelegationLookup(t) ==
  \E requester \in ConcRequesters, action \in ConcActions, resource_id \in ConcResourceIds :
    LET sub == get_subscription(policies, resource_id)
    IN /\ MayStart(t)
       /\ IF ~Truthy(sub)
          THEN Return(t, "check_delegation", requester, action, resource_id,
                      Logged(audit_log, NotFound(action, resource_id, requester)))
          ELSE Proceed(t, "delegation_rules", "check_delegation", requester, action,
                       resource_id, sub, {policies})
       /\ UNCHANGED <<policies, default_timestamp, now, utc_offset>>

\* check_delegation up to its rules, called by can_cancel for a delegate.
CanCancelDelegate(t) ==
  LET th == threads[t]
      sub == get_subscription(policies, th.resource_id)
  IN /\ th.pc = "check_delegation"
     /\ IF ~Truthy(sub)
        THEN Return(t, th.op, th.requester, th.action, th.resource_id,
                    Logged(audit_log, NotFound(th.action, th.resource_id, th.requester)))
        ELSE Proceed(t, "delegation_rules", th.op, th.requester, th.action,
                     th.resource_id, sub, th.seen)
     /\ UNCHANGED <<policies, default_timestamp, now, utc_offset>>

\* check_delegation from the delegate's rules on.
CheckDelegationRules(t) ==
  LET th == threads[t]
  IN /\ th.pc = "delegation_rules"
     /\ Return(t, th.op, th.requester, th.action, th.resource_id,
               delegation_rules(audit_log, policies, th.sub, th.requester, th.action,
                                th.resource_id))
     /\ UNCHANGED <<policies, default_timestamp, now, utc_offset>>

\* is_within_budget reads self.policies once.
BudgetCall(t) ==
  \E amount \in ConcAmounts, category \in {"streaming"}, requester \in ConcRequesters :
    /\ MayStart(t)
    /\ Return(t, "is_within_budget", requester, "spend", category,
              is_within_budget(audit_log, policies, amount, category, requester))
    /\ UNCHANGED <<policies, default_timestamp, now, utc_offset>>

NextConc ==
  \/ \E t \in Threads :
       \/ CanCancelLookup(t)
       \/ CanCancelOwner(t)
       \/ CanCancelDelegate(t)
       \/ CheckDelegationLookup(t)
       \/ CheckDelegationRules(t)
       \/ BudgetCall(t)
  \/ RefreshDelegation

\* The clock stands still here, so one offset of local time stands for all.
InitConc == Init /\ utc_offset = 0

SpecConc == InitConc /\ [][NextConc]_vars
\* ================================================================ claims
\* What the claims speak of, read off the rule set rather than off the engine.
Range(f) == {f[i] : i \in DOMAIN f}

CatalogOf(pol) == IF "mock_database" \in DOMAIN pol THEN Range(pol.mock_database) ELSE {}

CatalogIds(pol) == {r.id : r \in CatalogOf(pol)}

Resource(pol, id) == CHOOSE r \in CatalogOf(pol) : r.id = id

OwnerPolicies(pol) == IF "owner_policies" \in DOMAIN pol THEN pol.owner_policies ELSE EmptyDict

BlockedCategories(pol) ==
  IF "blocked_categories" \in DOMAIN OwnerPolicies(pol)
  THEN Range(OwnerPolicies(pol).blocked_categories) ELSE {}

\* The cancellation limit; 0 when none is configured.
MaxCancellationAmount(pol) ==
  IF "max_cancellation_amount" \in DOMAIN OwnerPolicies(pol)
  THEN OwnerPolicies(pol).max_cancellation_amount ELSE 0

DelegationPolicies(pol) ==
  IF "delegation_policies" \in DOMAIN pol THEN pol.delegation_policies ELSE EmptyDict

\* D has delegation rules defined: an entry that is not empty.
HasRules(pol, D) ==
  /\ D \in DOMAIN DelegationPolicies(pol)
  /\ DOMAIN DelegationPolicies(pol)[D] # {}

RulesOf(pol, D) == DelegationPolicies(pol)[D]

HasExpiry(rules) == "expiry_timestamp" \in DOMAIN rules

\* now <= expiry, now read in the expiry's frame: the instant when the expiry carries
\* an offset, local wall time when it carries none.
NotPast(expiry) ==
  (IF expiry.tz = "" THEN now + utc_offset ELSE now) <= expiry.at

WhitelistLower(rules) ==
  IF "allowed_subscriptions" \in DOMAIN rules
  THEN {Lower(w) : w \in Range(rules.allowed_subscriptions)} ELSE {}

Whitelisted(rules, R) ==
  Lower(R.name) \in WhitelistLower(rules) \/ Lower(R.category) \in WhitelistLower(rules)

CategoryBlockText == "CATEGORY BLOCK: Cannot cancel '{category}' subscriptions autonomously."

AmountBlockText == "AMOUNT BLOCK: Cost (${amount}) exceeds cancellation limit (${limit})."

NotFoundText == "Subscription not found."

NoPolicyText == "No delegation policies defined for user '{requester}'."

ExpiredText == "DELEGATION BLOCK: Access has expired."

WhitelistMissText ==
  "DELEGATION BLOCK: User '{requester}' is not authorized to manage '{name}'."

DelegationAllowText == "Action permitted by delegation policies."

\* An evaluation returns in this step.
Evaluates == last'.n = last.n + 1

\* ---------------------------------------------------------------- C1
\* C1: can_cancel(R.id, "owner") for R in the catalog is denied iff R.category is a
\* blocked category or R.amount exceeds max_cancellation_amount, and when both hold
\* the reason is the category block.
C1_OwnerCancel ==
  [][ (/\ Evaluates
       /\ last'.op = "can_cancel"
       /\ last'.requester = "owner"
       /\ last'.subscription_id \in CatalogIds(policies))
      => LET R == Resource(policies, last'.subscription_id)
             blocked == R.category \in BlockedCategories(policies)
             over == R.amount > MaxCancellationAmount(policies)
         IN /\ ~last'.ret.allowed <=> (blocked \/ over)
            /\ (blocked /\ over) => last'.ret.reason.fmt = CategoryBlockText ]_vars

\* The owner was refused a resource that is both in a blocked category and over the limit.
C1_Witness ==
  /\ last.op = "can_cancel"
  /\ last.requester = "owner"
  /\ last.subscription_id \in CatalogIds(policies)
  /\ Resource(policies, last.subscription_id).category \in BlockedCategories(policies)
  /\ Resource(policies, last.subscription_id).amount > MaxCancellationAmount(policies)
  /\ last.ret = [allowed |-> FALSE,
                 reason |-> [fmt |-> CategoryBlockText, category |-> Utility],
                 action |-> "cancel", resource_id |-> "sub_003", requester |-> "owner",
                 timestamp |-> default_timestamp]

\* ---------------------------------------------------------------- C2
\* C2: check_delegation(D, action, R.id) for R in the catalog allows iff D has rules
\* defined, and has no expiry or one that does not parse or one not yet past, and R's
\* name or category, lower-cased, is in the lower-cased whitelist; whatever the action.
C2_Allows(pol, D, R) ==
  /\ HasRules(pol, D)
  /\ \/ ~HasExpiry(RulesOf(pol, D))
     \/ ~RulesOf(pol, D).expiry_timestamp.iso
     \/ NotPast(RulesOf(pol, D).expiry_timestamp)
  /\ Whitelisted(RulesOf(pol, D), R)

C3_Reason(pol, D, id) ==
  IF id \notin CatalogIds(pol) THEN NotFoundText
  ELSE IF ~HasRules(pol, D) THEN NoPolicyText
  ELSE IF /\ HasExpiry(RulesOf(pol, D))
          /\ RulesOf(pol, D).expiry_timestamp.iso
          /\ ~NotPast(RulesOf(pol, D).expiry_timestamp) THEN ExpiredText
  ELSE IF ~Whitelisted(RulesOf(pol, D), Resource(pol, id)) THEN WhitelistMissText
  ELSE DelegationAllowText

C3_Precedence ==
  [][ (Evaluates /\ last'.op = "check_delegation")
      => /\ last'.ret.reason.fmt = C3_Reason(policies, last'.requester, last'.resource_id)
         /\ last'.ret.allowed <=> (last'.ret.reason.fmt = DelegationAllowText) ]_vars

\* An expired delegate was refused, as expired, a resource its whitelist does not name.
C3_Witness ==
  /\ last.op = "check_delegation"
  /\ policies = CfgTimed
  /\ last.requester = "roommate"
  /\ last.resource_id = "sub_003"
  /\ ~Whitelisted(RulesOf(policies, "roommate"), Resource(policies, "sub_003"))
  /\ ~NotPast(RulesOf(policies, "roommate").expiry_timestamp)
  /\ last.ret.reason.fmt = ExpiredText
\* ---------------------------------------------------------------- C4
\* C4 (Scenario B): under the demo's rules, roommate's "modify" of sub_002 (Spotify
\* Duo, streaming, 500; whitelist Spotify and Zomato Gold) is allowed, and
\* attempt_action answers "success".
C4_ScenarioB ==
  [][ (/\ Evaluates
       /\ last'.op = "attempt_action"
       /\ policies = CfgDemo
       /\ last'.delegator_id = "roommate"
       /\ last'.action = "modify"
       /\ last'.resource_id = "sub_002")
      => (last'.decision.allowed /\ last'.ret.status = "success") ]_vars

\* ---------------------------------------------------------------- C5
\* The owner's confirmation threshold, when one is configured.
HasThreshold(pol) ==
  /\ "global_rules" \in DOMAIN pol
  /\ "require_confirmation_above" \in DOMAIN pol.global_rules

\* A delegate's spend limit; 0 without a max_amount or without an entry.
DelegateLimit(pol, D) ==
  IF D \in DOMAIN DelegationPolicies(pol) /\ "max_amount" \in DOMAIN RulesOf(pol, D)
  THEN RulesOf(pol, D).max_amount ELSE 0

\* C5: is_within_budget denies the owner iff the amount exceeds
\* require_confirmation_above, and anyone else iff it exceeds that requester's
\* max_amount, taken as 0 when none is configured; nothing else decides.
C5_Budget ==
  [][ (Evaluates /\ last'.op = "is_within_budget")
      => (~last'.ret.allowed
            <=> IF last'.requester = "owner"
                THEN /\ HasThreshold(policies)
                     /\ last'.amount > policies.global_rules.require_confirmation_above
                ELSE last'.amount > DelegateLimit(policies, last'.requester)) ]_vars

\* A delegate with rules but no max_amount was refused a positive spend.
C5_Witness ==
  /\ last.op = "is_within_budget"
  /\ policies = CfgTimed
  /\ last.requester = "guest"
  /\ "max_amount" \notin DOMAIN RulesOf(policies, "guest")
  /\ last.amount > 0
  /\ ~last.ret.allowed
\* ---------------------------------------------------------------- C6
\* The Decision the latest call obtained from the engine.
Returned(l) == IF "decision" \in DOMAIN l THEN l.decision ELSE l.ret

\* C6: the audit log is append-only with one entry per evaluation: a step either
\* leaves it alone or completes one evaluation and appends exactly the Decision
\* returned, and its length is the number of evaluations completed.
C6_AuditLog ==
  [][ /\ Len(audit_log') = last'.n
      /\ \/ last'.n = last.n /\ audit_log' = audit_log
         \/ last'.n = last.n + 1 /\ audit_log' = Append(audit_log, Returned(last')) ]_vars

\* Two evaluations have returned, the first a not-found denial, the second a
\* delegate's can_cancel that check_delegation refused.
C6_Witness ==
  /\ Len(audit_log) = 2
  /\ audit_log[1].reason.fmt = NotFoundText
  /\ last.op = "can_cancel"
  /\ last.requester # "owner"
  /\ last.ret.reason.fmt = WhitelistMissText
  /\ audit_log[2] = last.ret

\* ---------------------------------------------------------------- C7
\* C7: under the empty rule set every evaluation returns a denied Decision.
C7_EmptyDenies ==
  [][ (Evaluates /\ policies = EmptyDict) => ~Returned(last').allowed ]_vars

\* ---------------------------------------------------------------- C8
\* The Decision of thread th's request evaluated wholly against rule set pol.
SnapshotDecision(pol, th) ==
  IF th.op = "can_cancel"
  THEN can_cancel(<<>>, pol, th.resource_id, th.requester).ret
  ELSE check_delegation(<<>>, pol, th.requester, th.action, th.resource_id).ret

\* C8: an evaluation that runs while the rule set is replaced returns the Decision of
\* one of the rule sets that were active while it ran.
C8_ReloadAtomic ==
  [][ \A t \in Threads :
        (threads[t].pc # "idle" /\ threads'[t].pc = "idle")
        => last'.ret \in {SnapshotDecision(pol, threads[t]) : pol \in threads[t].seen} ]_vars

\* ---------------------------------------------------------------- C9
\* C9: an identity without an entry in delegation_policies is blocked in every
\* attempt_action, and the engine's Decision is a denial.
C9_UnknownBlocked ==
  [][ (/\ Evaluates
       /\ last'.op = "attempt_action"
       /\ last'.delegator_id \notin DOMAIN DelegationPolicies(policies))
      => (last'.ret.status = "blocked" /\ ~last'.decision.allowed) ]_vars

\* ---------------------------------------------------------------- C10
\* The engine operation the action names, on the attempt's arguments.
C10_Routed(log, pol, l) ==
  IF l.action = "cancel"
  THEN can_cancel(log, pol, l.resource_id, l.delegator_id)
  ELSE IF l.action = "spend"
  THEN is_within_budget(log, pol,
         IF "amount" \in DOMAIN l.kwargs THEN l.kwargs.amount ELSE 0,
         IF "category" \in DOMAIN l.kwargs THEN l.kwargs.category ELSE "unknown",
         l.delegator_id)
  ELSE check_delegation(log, pol, l.delegator_id, l.action, l.resource_id)

\* C10: attempt_action obtains its Decision from the engine operation its action
\* names, in one evaluation, and answers "blocked" with that Decision's reason when
\* it is denied and "success" when it is allowed.
C10_AgentForwards ==
  [][ (Evaluates /\ last'.op = "attempt_action")
      => /\ last'.decision = C10_Routed(audit_log, policies, last').ret
         /\ audit_log' = Append(audit_log, last'.decision)
         /\ last'.ret.status = "blocked" <=> ~last'.decision.allowed
         /\ last'.ret.status = "success" <=> last'.decision.allowed
         /\ ~last'.decision.allowed => last'.ret.reason = last'.decision.reason ]_vars

\* Scenario C through the agent: roommate's spend of 2000 was blocked with the
\* engine's reason.
C10_Witness ==
  /\ last.op = "attempt_action"
  /\ last.delegator_id = "roommate"
  /\ last.action = "spend"
  /\ last.kwargs = [amount |-> 2000, category |-> "streaming"]
  /\ last.ret.status = "blocked"
  /\ last.ret.reason = [fmt |-> "Spend (${amount}) exceeds delegate limit (${limit}).",
                        amount |-> 2000, limit |-> 500]
  /\ audit_log[Len(audit_log)].reason = last.ret.reason

\* The action strings the repository itself passes to a delegate: the two the
\* dispatcher names, and the two its callers send down the generic branch.
RecognizedActions == {"cancel", "spend", "modify", "access"}

\* C11: an attempt with an action string the dispatcher does not recognize ends
\* in a caller-visible error, not in a blocked or success result made from a
\* Decision, and no Decision allows it.
C11_InvalidRequest ==
  [][ (Evaluates /\ last'.op = "attempt_action" /\ last'.action \notin RecognizedActions)
        => /\ last'.ret.status \notin {"blocked", "success"}
           /\ ~last'.decision.allowed ]_vars

\* The evaluation made in this step repeats the request of the one before it.
Repeats ==
  /\ Evaluates
  /\ "request" \in DOMAIN last
  /\ last'.request = last.request

\* Both Decisions agree on allowed and reason.
SameVerdict ==
  /\ last'.ret.allowed = last.ret.allowed
  /\ last'.ret.reason = last.ret.reason

\* Both Decisions are the last two entries of the audit log, which grew by one
\* in each of the two evaluations.
BothAppended ==
  /\ Len(audit_log) >= 1
  /\ audit_log[Len(audit_log)] = last.ret
  /\ audit_log' = Append(audit_log, last'.ret)

\* C12 as stated: a request evaluated twice in succession with no reload in
\* between, at any two points in time, gets the same allowed and reason twice,
\* and the audit log grows by two.
C12_Idempotent ==
  [][ Repeats => (SameVerdict /\ BothAppended) ]_vars

\* The clock at instant t is past the expiry, read in the expiry's frame.
PastAt(expiry, t) ==
  (IF expiry.tz = "" THEN t + utc_offset ELSE t) > expiry.at

\* The delegation of D expires after instant t1 and by instant t2.
ExpiresBetween(pol, D, t1, t2) ==
  /\ HasRules(pol, D)
  /\ HasExpiry(RulesOf(pol, D))
  /\ RulesOf(pol, D).expiry_timestamp.iso
  /\ ~PastAt(RulesOf(pol, D).expiry_timestamp, t1)
  /\ PastAt(RulesOf(pol, D).expiry_timestamp, t2)

\* C12, amended: a request evaluated twice in succession with no reload in
\* between gets the same allowed and reason twice unless the requester's
\* delegation expired between the two evaluations, and in every case the audit
\* log grows by two.
C12_IdempotentUnlessExpired ==
  [][ Repeats =>
        /\ BothAppended
        /\ ~ExpiresBetween(policies, last.request.requester, last.at, now) => SameVerdict ]_vars

\* A delegate with an expiry asked the same check_delegation twice, the second
\* time later than the first and still before the expiry; both were allowed.
C12_Witness ==
  /\ last.n = 2
  /\ last.op = "check_delegation"
  /\ last.request.requester = "roommate"
  /\ policies = CfgTimed
  /\ last.at = 1
  /\ last.ret.allowed
  /\ audit_log = <<last.ret, last.ret>>

\* The wall clock a Decision is stamped from: datetime.now() with no tzinfo.
WallClock == now + utc_offset

NonDecreasing(log) ==
  \A i, j \in DOMAIN log : i <= j => log[i].timestamp <= log[j].timestamp

\* C13: a Decision's timestamp is the clock time of its evaluation, so it is not
\* earlier than the request, two evaluations made at different clock times carry
\* different timestamps, and the timestamps in the audit log never decrease.
C13_Timestamp ==
  [][ Evaluates =>
        /\ last'.ret.timestamp = WallClock
        /\ ("at" \in DOMAIN last /\ last.at # now) => last'.ret.timestamp # last.ret.timestamp
        /\ NonDecreasing(audit_log') ]_vars
====
